---------------------------- MODULE Spec2Model ----------------------------
(***************************************************************************)
(* travel_utils.py: travel_time_s, haversine and distance_and_time.        *)
(*                                                                         *)
(* Python floats are modelled as binary floating-point numbers <<m, e>>    *)
(* (value m * 2^e) with a mantissa of Precision bits instead of 53, every  *)
(* arithmetic operation rounding its exact result to nearest, ties to      *)
(* even, as IEEE 754 does.  The exponent is unbounded: no input of the     *)
(* model overflows or underflows.  Every invocation is a stack of frames   *)
(* that executes one source line per step.                                 *)
(***************************************************************************)
EXTENDS Integers, Sequences, FiniteSets, TLC

\* Bits of mantissa of a modelled float (53 in the program's doubles).
Precision == 14

\* Number of invocations that may be in flight at once.
NProcs == 2

\* travel_time_s is tried on distances -MaxDistSteps*50 .. MaxDistSteps*50 km.
MaxDistSteps == 2

\* ... and on speeds -MaxSpeedSteps*25 .. MaxSpeedSteps*25 km/h.
MaxSpeedSteps == 2

Procs == 1..NProcs

\* Python's None: the value of a local that is not bound yet.
None == <<>>

-----------------------------------------------------------------------------
(* Floating-point arithmetic *)

RECURSIVE Pow2(_)
Pow2(k) == IF k = 0 THEN 1 ELSE 2 * Pow2(k - 1)

RECURSIVE BitLen(_)
BitLen(n) == IF n = 0 THEN 0 ELSE 1 + BitLen(n \div 2)

Abs(n) == IF n < 0 THEN -n ELSE n

Sign(n) == IF n < 0 THEN -1 ELSE IF n = 0 THEN 0 ELSE 1

Zero == <<0, 0>>

\* The float nearest to the exact value N * 2^e, ties to even.
RoundFloat(N, e) ==
    IF N = 0 THEN Zero
    ELSE LET A == Abs(N)
             L == BitLen(A)
         IN  IF L <= Precision
             THEN <<Sign(N) * A * Pow2(Precision - L), e - (Precision - L)>>
             ELSE LET sh   == L - Precision
                      q    == A \div Pow2(sh)
                      r    == A % Pow2(sh)
                      half == Pow2(sh - 1)
                      up   == r > half \/ (r = half /\ q % 2 = 1)
                      q1   == IF up THEN q + 1 ELSE q
                  IN  IF q1 = Pow2(Precision)
                      THEN <<Sign(N) * Pow2(Precision - 1), e + sh + 1>>
                      ELSE <<Sign(N) * q1, e + sh>>

\* float(n) of a Python int.
FromInt(n) == RoundFloat(n, 0)

FNeg(x) == <<-x[1], x[2]>>

FAbs(x) == <<Abs(x[1]), x[2]>>

FAdd(x, y) ==
    IF x[1] = 0 THEN y
    ELSE IF y[1] = 0 THEN x
    ELSE LET hi == IF x[2] >= y[2] THEN x ELSE y
             lo == IF x[2] >= y[2] THEN y ELSE x
             d  == hi[2] - lo[2]
         IN  IF d > Precision + 1 THEN hi
             ELSE RoundFloat(hi[1] * Pow2(d) + lo[1], lo[2])

FSub(x, y) == FAdd(x, FNeg(y))

FMul(x, y) == RoundFloat(x[1] * y[1], x[2] + y[2])

\* x / y for y # 0: the quotient to Precision + 2 bits and a sticky bit.
FDiv(x, y) ==
    IF x[1] = 0 THEN Zero
    ELSE LET A == Abs(x[1]) * Pow2(Precision + 1)
             q == A \div Abs(y[1])
             s == IF A % Abs(y[1]) = 0 THEN 0 ELSE 1
         IN  RoundFloat(Sign(x[1]) * Sign(y[1]) * (2 * q + s),
                        x[2] - y[2] - (Precision + 1) - 1)

FLt(x, y) == FSub(x, y)[1] < 0

FLe(x, y) == FSub(x, y)[1] <= 0

\* floor(sqrt(n)) by bisection, with lo * lo <= n < hi * hi.
RECURSIVE ISqrt(_, _, _)
ISqrt(n, lo, hi) ==
    IF hi - lo <= 1 THEN lo
    ELSE LET mid == (lo + hi) \div 2
         IN  IF mid * mid <= n THEN ISqrt(n, mid, hi) ELSE ISqrt(n, lo, mid)

\* The correctly rounded square root of x >= 0.
FSqrt(x) ==
    IF x[1] = 0 THEN Zero
    ELSE LET k == IF (x[2] - (Precision + 1)) % 2 = 0
                  THEN Precision + 1 ELSE Precision + 2
             N == x[1] * Pow2(k)
             r == ISqrt(N, 0, Pow2(Precision + 1))
             s == IF r * r = N THEN 0 ELSE 1
         IN  RoundFloat(2 * r + s, ((x[2] - k) \div 2) - 1)

-----------------------------------------------------------------------------
(* The math module: pi, radians, sin, cos, asin and sqrt.  sin, cos and    *)
(* asin are evaluated in float arithmetic after argument reduction, which  *)
(* leaves them a few units in the last place from the exact value, sin odd *)
(* and cos even, as a C library's are.                                     *)

One == FromInt(1)

Two == FromInt(2)

\* math.pi: pi to Precision bits.
Pi == RoundFloat(12868, -12)

HalfPi == FDiv(Pi, Two)

\* math.radians(x) is x * (pi / 180).
Radians(x) == FMul(x, FDiv(Pi, FromInt(180)))

\* The integer nearest to x, halves away from zero.
NearestInt(x) ==
    IF x[2] >= 0 THEN x[1] * Pow2(x[2])
    ELSE IF -x[2] > Precision THEN 0
    ELSE Sign(x[1]) * ((Abs(x[1]) + Pow2(-x[2] - 1)) \div Pow2(-x[2]))

\* sin on [-pi/4, pi/4]: r (1 - r^2/6 (1 - r^2/20 (1 - r^2/42))).
SinPoly(r) ==
    LET r2 == FMul(r, r)
        t3 == FSub(One, FDiv(r2, FromInt(42)))
        t2 == FSub(One, FMul(FDiv(r2, FromInt(20)), t3))
        t1 == FSub(One, FMul(FDiv(r2, FromInt(6)), t2))
    IN  FMul(r, t1)

\* cos on [-pi/4, pi/4]: 1 - r^2/2 (1 - r^2/12 (1 - r^2/30 (1 - r^2/56))).
CosPoly(r) ==
    LET r2 == FMul(r, r)
        t4 == FSub(One, FDiv(r2, FromInt(56)))
        t3 == FSub(One, FMul(FDiv(r2, FromInt(30)), t4))
        t2 == FSub(One, FMul(FDiv(r2, FromInt(12)), t3))
    IN  FSub(One, FMul(FDiv(r2, Two), t2))

\* x = Quadrant(x) * pi/2 + Reduced(x), Reduced(x) in [-pi/4, pi/4].
Quadrant(x) == NearestInt(FDiv(x, HalfPi))

Reduced(x) == FSub(x, FMul(FromInt(Quadrant(x)), HalfPi))

\* math.sin
Sin(x) ==
    LET n == Quadrant(x) % 4
        r == Reduced(x)
    IN  CASE n = 0 -> SinPoly(r)
          [] n = 1 -> CosPoly(r)
          [] n = 2 -> FNeg(SinPoly(r))
          [] n = 3 -> FNeg(CosPoly(r))

\* math.cos
Cos(x) ==
    LET n == Quadrant(x) % 4
        r == Reduced(x)
    IN  CASE n = 0 -> CosPoly(r)
          [] n = 1 -> FNeg(SinPoly(r))
          [] n = 2 -> FNeg(CosPoly(r))
          [] n = 3 -> SinPoly(r)

\* asin on [0, 1/2]: y (1 + y^2 (1/6 + y^2 (3/40 + y^2 (5/112 + ...)))).
AsinPoly(y) ==
    LET y2 == FMul(y, y)
        t6 == FDiv(FromInt(231), FromInt(13312))
        t5 == FAdd(FDiv(FromInt(63), FromInt(2816)), FMul(y2, t6))
        t4 == FAdd(FDiv(FromInt(35), FromInt(1152)), FMul(y2, t5))
        t3 == FAdd(FDiv(FromInt(5), FromInt(112)), FMul(y2, t4))
        t2 == FAdd(FDiv(FromInt(3), FromInt(40)), FMul(y2, t3))
        t1 == FAdd(FDiv(One, FromInt(6)), FMul(y2, t2))
    IN  FMul(y, FAdd(One, FMul(y2, t1)))

\* math.sqrt and math.asin raise ValueError("math domain error") outside
\* their domains.
SqrtDomain(x) == x[1] >= 0

AsinDomain(x) == FLe(FAbs(x), One)

\* math.asin on [-1, 1]; above 1/2 it is pi/2 - 2 asin(sqrt((1 - y) / 2)).
Asin(x) ==
    LET y == FAbs(x)
        v == IF FLe(y, FDiv(One, Two))
             THEN AsinPoly(y)
             ELSE FSub(HalfPi, FMul(Two, AsinPoly(FSqrt(FDiv(FSub(One, y), Two)))))
    IN  IF x[1] < 0 THEN FNeg(v) ELSE v

-----------------------------------------------------------------------------
(* Invocations.  call[p] is what invocation p was asked to compute,        *)
(* stack[p] its stack of frames (the running frame last) and outcome[p]    *)
(* what it gave its caller.  A frame holds the function, the line about to *)
(* run and every local of the three functions.                             *)

VARIABLES call, stack, outcome

vars == <<call, stack, outcome>>

Pending == [kind |-> "pending", value |-> None, error |-> ""]

Returned(v) == [kind |-> "return", value |-> v, error |-> ""]

Raised(err) == [kind |-> "raise", value |-> None, error |-> err]

SpeedError == "ValueError: Speed must be positive"

DomainError == "ValueError: math domain error"

DivisionError == "ZeroDivisionError: float division by zero"

NoLocals ==
    [fn |-> "", pc |-> 0,
     lat1 |-> None, lon1 |-> None, lat2 |-> None, lon2 |-> None,
     dlon |-> None, dlat |-> None, a |-> None, c |-> None, r |-> None,
     dist_km |-> None, speed_kmh |-> None, time_hours |-> None,
     time_seconds |-> None, time_s |-> None]

\* The frame of a call: the parameters bound, at the function's first line.
NewFrame(fn, args) ==
    CASE fn = "travel_time_s" ->
           [NoLocals EXCEPT !.fn = fn, !.pc = 15,
                            !.dist_km = args[1], !.speed_kmh = args[2]]
      [] fn = "haversine" ->
           [NoLocals EXCEPT !.fn = fn, !.pc = 36,
                            !.lat1 = args[1], !.lon1 = args[2],
                            !.lat2 = args[3], !.lon2 = args[4]]
      [] fn = "distance_and_time" ->
           [NoLocals EXCEPT !.fn = fn, !.pc = 59,
                            !.lat1 = args[1], !.lon1 = args[2],
                            !.lat2 = args[3], !.lon2 = args[4],
                            !.speed_kmh = args[5]]

Top(stk) == stk[Len(stk)]

Callers(stk) == SubSeq(stk, 1, Len(stk) - 1)

\* The running frame becomes f.
Goto(stk, f) == [stack |-> Append(Callers(stk), f), outcome |-> Pending]

\* A call: the callee's frame goes on top, the caller waits at its line.
Call(stk, fn, args) ==
    [stack |-> Append(stk, NewFrame(fn, args)), outcome |-> Pending]

\* return v: the frame is dropped; the caller, waiting at line 59 or 60,
\* binds the value and goes on; without a caller v is the outcome.
Return(stk, v) ==
    IF Callers(stk) = << >>
    THEN [stack |-> << >>, outcome |-> Returned(v)]
    ELSE LET g == Top(Callers(stk))
             h == IF g.pc = 59
                  THEN [g EXCEPT !.dist_km = v, !.pc = 60]
                  ELSE [g EXCEPT !.time_s = v, !.pc = 61]
         IN  [stack |-> Append(Callers(Callers(stk)), h), outcome |-> Pending]

\* raise: no function of the module has a try statement, so the exception
\* leaves every frame of the stack and reaches the caller.
Raise(stk, err) == [stack |-> << >>, outcome |-> Raised(err)]

\* Line 15 as speed_kmh < 0: a zero speed passes the check.
SpeedNegative(speed_kmh) == FLt(speed_kmh, Zero)

\* Line 15 as speed_kmh == 0: a negative speed passes the check.
SpeedIsZero(speed_kmh) == speed_kmh[1] = 0

\* Line 15: speed_kmh <= 0
SpeedInvalid(speed_kmh) == FLe(speed_kmh, Zero)

\* Line 19: dist_km / speed_kmh
TimeHours(dist_km, speed_kmh) == FDiv(dist_km, speed_kmh)

\* Line 20 with the minutes of an hour for its seconds.
TimeMinutes(time_hours) == FMul(time_hours, FromInt(60))

\* Line 20: time_hours * 3600
TimeSeconds(time_hours) == FMul(time_hours, FromInt(3600))

\* Line 39 with the sign mistaken.
DlonSum(lon1, lon2) == FAdd(lon2, lon1)

\* Line 39: lon2 - lon1
Dlon(lon1, lon2) == FSub(lon2, lon1)

\* Line 40: lat2 - lat1
Dlat(lat1, lat2) == FSub(lat2, lat1)

\* x ** 2
Square(x) == FMul(x, x)

\* Line 41 with cos(lat1) written twice.
HavAFirstLatitude(lat1, lat2, dlat, dlon) ==
    FAdd(Square(Sin(FDiv(dlat, Two))),
         FMul(FMul(Cos(lat1), Cos(lat1)), Square(Sin(FDiv(dlon, Two)))))

\* Line 41: sin(dlat/2)**2 + cos(lat1) * cos(lat2) * sin(dlon/2)**2
HavA(lat1, lat2, dlat, dlon) ==
    FAdd(Square(Sin(FDiv(dlat, Two))),
         FMul(FMul(Cos(lat1), Cos(lat2)), Square(Sin(FDiv(dlon, Two)))))

\* Line 42 with the central angle doubled.
CentralAngleDoubled(a) == FMul(FromInt(4), Asin(FSqrt(a)))

\* Line 42: 2 * asin(sqrt(a)), for a in the domain of both
CentralAngle(a) == FMul(Two, Asin(FSqrt(a)))

\* Line 43: the radius of the earth in kilometers
EarthRadius == 6371

(* travel_time_s *)

Line15(stk) ==
    LET f == Top(stk)
    IN  IF SpeedInvalid(f.speed_kmh)
        THEN Raise(stk, SpeedError)
        ELSE Goto(stk, [f EXCEPT !.pc = 19])

Line19(stk) ==
    LET f == Top(stk)
    IN  IF f.speed_kmh[1] = 0
        THEN Raise(stk, DivisionError)
        ELSE Goto(stk, [f EXCEPT !.time_hours = TimeHours(f.dist_km, f.speed_kmh),
                                 !.pc = 20])

Line20(stk) ==
    LET f == Top(stk)
    IN  Goto(stk, [f EXCEPT !.time_seconds = TimeSeconds(f.time_hours), !.pc = 21])

Line21(stk) == Return(stk, Top(stk).time_seconds)

(* haversine *)

Line36(stk) ==
    LET f == Top(stk)
    IN  Goto(stk, [f EXCEPT !.lat1 = Radians(f.lat1), !.lon1 = Radians(f.lon1),
                            !.lat2 = Radians(f.lat2), !.lon2 = Radians(f.lon2),
                            !.pc = 39])

Line39(stk) ==
    LET f == Top(stk)
    IN  Goto(stk, [f EXCEPT !.dlon = Dlon(f.lon1, f.lon2), !.pc = 40])

Line40(stk) ==
    LET f == Top(stk)
    IN  Goto(stk, [f EXCEPT !.dlat = Dlat(f.lat1, f.lat2), !.pc = 41])

Line41(stk) ==
    LET f == Top(stk)
    IN  Goto(stk, [f EXCEPT !.a = HavA(f.lat1, f.lat2, f.dlat, f.dlon), !.pc = 42])

Line42(stk) ==
    LET f == Top(stk)
    IN  IF ~SqrtDomain(f.a) THEN Raise(stk, DomainError)
        ELSE IF ~AsinDomain(FSqrt(f.a)) THEN Raise(stk, DomainError)
        ELSE Goto(stk, [f EXCEPT !.c = CentralAngle(f.a), !.pc = 43])

Line43(stk) ==
    LET f == Top(stk)
    IN  Goto(stk, [f EXCEPT !.r = FromInt(EarthRadius), !.pc = 44])

Line44(stk) == Return(stk, FMul(Top(stk).c, Top(stk).r))

(* distance_and_time *)

Line59(stk) ==
    LET f == Top(stk)
    IN  Call(stk, "haversine", <<f.lat1, f.lon1, f.lat2, f.lon2>>)

\* The arguments of the call of travel_time_s at line 60.
TravelArgs(f) == <<f.dist_km, f.speed_kmh>>

Line60(stk) == Call(stk, "travel_time_s", TravelArgs(Top(stk)))

Line61(stk) == Return(stk, <<Top(stk).dist_km, Top(stk).time_s>>)

\* One step of a stack that is not empty.
Exec(stk) ==
    LET pc == Top(stk).pc
    IN  CASE pc = 15 -> Line15(stk)
          [] pc = 19 -> Line19(stk)
          [] pc = 20 -> Line20(stk)
          [] pc = 21 -> Line21(stk)
          [] pc = 36 -> Line36(stk)
          [] pc = 39 -> Line39(stk)
          [] pc = 40 -> Line40(stk)
          [] pc = 41 -> Line41(stk)
          [] pc = 42 -> Line42(stk)
          [] pc = 43 -> Line43(stk)
          [] pc = 44 -> Line44(stk)
          [] pc = 59 -> Line59(stk)
          [] pc = 60 -> Line60(stk)
          [] pc = 61 -> Line61(stk)

\* The outcome of a stack run to its end with nothing else running.
RECURSIVE Run(_)
Run(stk) ==
    LET next == Exec(stk)
    IN  IF next.stack = << >> THEN next.outcome ELSE Run(next.stack)

\* The three functions as functions: what a call gives when it runs alone.
RunAlone(fn, args) == Run(<<NewFrame(fn, args)>>)

-----------------------------------------------------------------------------
(* The inputs *)

Latitudes == {FromInt(d) : d \in {-30, 0, 45, 210}}

Longitudes == {FromInt(d) : d \in {-180, 0, 90}}

Distances == {FromInt(50 * k) : k \in -MaxDistSteps..MaxDistSteps}

Speeds == {FromInt(25 * k) : k \in -MaxSpeedSteps..MaxSpeedSteps}

Points == Latitudes \X Longitudes

TravelCalls ==
    {[fn |-> "travel_time_s", args |-> <<d, s>>] : d \in Distances, s \in Speeds}

HaversineCalls ==
    {[fn |-> "haversine", args |-> <<p[1], p[2], q[1], q[2]>>] :
        p \in Points, q \in Points}

DistanceAndTimeCalls ==
    {[fn |-> "distance_and_time", args |-> Append(h.args, s)] :
        h \in HaversineCalls, s \in Speeds}

Calls == TravelCalls \cup HaversineCalls \cup DistanceAndTimeCalls

\* The calls made at the same time in SpecConcurrent.
ConcurrentCalls ==
    {[fn |-> "travel_time_s", args |-> <<FromInt(100), FromInt(0)>>],
     [fn |-> "haversine",
      args |-> <<FromInt(0), FromInt(0), FromInt(0), FromInt(90)>>],
     [fn |-> "distance_and_time",
      args |-> <<FromInt(0), FromInt(0), FromInt(0), FromInt(90), FromInt(50)>>],
     [fn |-> "distance_and_time",
      args |-> <<FromInt(-30), FromInt(-180), FromInt(210), FromInt(0), FromInt(25)>>]}

\* No call.
Idle == [fn |-> "none", args |-> << >>]

\* Frames kept in one place for every invocation, as module-level state is.
SlotShared(p) == 1

\* Where invocation p keeps its frames: its locals are its own.
Slot(p) == p

FirstStack(c) == IF c.fn = "none" THEN << >> ELSE <<NewFrame(c.fn, c.args)>>

\* One call of one of the functions, on any of the inputs.
Init ==
    /\ \E c \in Calls : call = [p \in Procs |-> IF p = 1 THEN c ELSE Idle]
    /\ stack = [p \in Procs |-> FirstStack(call[p])]
    /\ outcome = [p \in Procs |-> Pending]

\* NProcs calls at once.
InitConcurrent ==
    /\ call \in [Procs -> ConcurrentCalls]
    /\ stack = [p \in Procs |-> FirstStack(call[p])]
    /\ outcome = [p \in Procs |-> Pending]

\* Invocation p is about to run `line`.
At(p, line) ==
    /\ stack[Slot(p)] # << >>
    /\ Top(stack[Slot(p)]).pc = line

\* Invocation p runs a line, which leaves its stack and outcome as in next.
Do(p, next) ==
    /\ stack' = [stack EXCEPT ![Slot(p)] = next.stack]
    /\ outcome' = [outcome EXCEPT ![p] = next.outcome]
    /\ UNCHANGED call

TravelCheckSpeed(p) == At(p, 15) /\ Do(p, Line15(stack[Slot(p)]))

TravelDivide(p) == At(p, 19) /\ Do(p, Line19(stack[Slot(p)]))

TravelToSeconds(p) == At(p, 20) /\ Do(p, Line20(stack[Slot(p)]))

TravelReturn(p) == At(p, 21) /\ Do(p, Line21(stack[Slot(p)]))

HaversineToRadians(p) == At(p, 36) /\ Do(p, Line36(stack[Slot(p)]))

HaversineDlon(p) == At(p, 39) /\ Do(p, Line39(stack[Slot(p)]))

HaversineDlat(p) == At(p, 40) /\ Do(p, Line40(stack[Slot(p)]))

HaversineA(p) == At(p, 41) /\ Do(p, Line41(stack[Slot(p)]))

HaversineC(p) == At(p, 42) /\ Do(p, Line42(stack[Slot(p)]))

HaversineRadius(p) == At(p, 43) /\ Do(p, Line43(stack[Slot(p)]))

HaversineReturn(p) == At(p, 44) /\ Do(p, Line44(stack[Slot(p)]))

DistanceAndTimeCallHaversine(p) == At(p, 59) /\ Do(p, Line59(stack[Slot(p)]))

DistanceAndTimeCallTravelTime(p) == At(p, 60) /\ Do(p, Line60(stack[Slot(p)]))

DistanceAndTimeReturn(p) == At(p, 61) /\ Do(p, Line61(stack[Slot(p)]))

Next ==
    \E p \in Procs :
        \/ TravelCheckSpeed(p)
        \/ TravelDivide(p)
        \/ TravelToSeconds(p)
        \/ TravelReturn(p)
        \/ HaversineToRadians(p)
        \/ HaversineDlon(p)
        \/ HaversineDlat(p)
        \/ HaversineA(p)
        \/ HaversineC(p)
        \/ HaversineRadius(p)
        \/ HaversineReturn(p)
        \/ DistanceAndTimeCallHaversine(p)
        \/ DistanceAndTimeCallTravelTime(p)
        \/ DistanceAndTimeReturn(p)

Spec == Init /\ [][Next]_vars

SpecConcurrent == InitConcurrent /\ [][Next]_vars

-----------------------------------------------------------------------------
(* The claims *)

Done(p) == outcome[p].kind # "pending"

Returns(p) == outcome[p].kind = "return"

Positive(x) == x[1] > 0

NonNegative(x) == x[1] >= 0

\* C1: travel_time_s raises ValueError exactly when speed_kmh <= 0: the
\* division of line 19 is reached only with speed_kmh > 0, a call with
\* speed_kmh <= 0 ends in the ValueError of line 16 and never in a division
\* fault, and a call with speed_kmh > 0 returns a value, whatever dist_km is.
C1_RaisesIffSpeedNotPositive ==
    \A p \in Procs :
        call[p].fn = "travel_time_s" =>
            LET speed == call[p].args[2]
            IN  /\ (stack[p] # << >> /\ Top(stack[p]).pc = 19) => Positive(speed)
                /\ Done(p) =>
                       IF Positive(speed)
                       THEN Returns(p)
                       ELSE outcome[p] = Raised(SpeedError)

\* travel_time_s(100, 0) or travel_time_s(-50, -25) raised the ValueError
\* of line 16.
C1_Witness ==
    \E p \in Procs :
        /\ call[p].fn = "travel_time_s"
        /\ call[p].args \in {<<FromInt(100), FromInt(0)>>,
                             <<FromInt(-50), FromInt(-25)>>}
        /\ outcome[p] = Raised(SpeedError)

\* C2: for speed_kmh > 0, travel_time_s returns (dist_km / speed_kmh) * 3600.
C2_ReturnsHoursTimes3600 ==
    \A p \in Procs :
        (call[p].fn = "travel_time_s" /\ Positive(call[p].args[2]) /\ Done(p)) =>
            outcome[p] =
                Returned(FMul(FDiv(call[p].args[1], call[p].args[2]), FromInt(3600)))

\* travel_time_s(100, 50) returned 7200.
C2_Witness ==
    \E p \in Procs :
        /\ call[p] = [fn |-> "travel_time_s", args |-> <<FromInt(100), FromInt(50)>>]
        /\ outcome[p] = Returned(FromInt(7200))

\* C3: for every coordinate quadruple and every speed_kmh > 0,
\* distance_and_time returns the pair (d, t) with d = haversine(...) and
\* t = travel_time_s(d, speed_kmh).
C3_ReturnsDistanceAndItsTime ==
    \A p \in Procs :
        (call[p].fn = "distance_and_time" /\ Positive(call[p].args[5]) /\ Done(p)) =>
            LET d == RunAlone("haversine", SubSeq(call[p].args, 1, 4))
            IN  /\ Returns(p)
                /\ d.kind = "return"
                /\ outcome[p].value =
                       <<d.value,
                         RunAlone("travel_time_s", <<d.value, call[p].args[5]>>).value>>

\* C4: for every coordinate quadruple and every speed_kmh <= 0,
\* distance_and_time ends in the ValueError that travel_time_s raises, and
\* returns nothing.
C4_EndsInTheSpeedError ==
    \A p \in Procs :
        (call[p].fn = "distance_and_time" /\ ~Positive(call[p].args[5]) /\ Done(p)) =>
            outcome[p] = Raised(SpeedError)

\* C5: haversine raises no error: the value a that line 42 passes to sqrt
\* and asin is within [0, 1].
C5_HaversineRaisesNoError ==
    \A p \in Procs :
        /\ (stack[p] # << >> /\ Top(stack[p]).pc = 42) =>
               /\ NonNegative(Top(stack[p]).a)
               /\ FLe(Top(stack[p]).a, One)
        /\ call[p].fn = "haversine" => outcome[p].kind # "raise"

\* C6: a value that haversine returns is in [0, pi * 6371].
C6_DistanceWithinHalfCircumference ==
    \A p \in Procs :
        (call[p].fn = "haversine" /\ Returns(p)) =>
            /\ NonNegative(outcome[p].value)
            /\ FLe(outcome[p].value, FMul(Pi, FromInt(6371)))

\* haversine(0, -180, 0, 0), of two antipodal points, returned pi * 6371.
C6_Witness ==
    \E p \in Procs :
        /\ call[p].fn = "haversine"
        /\ call[p].args = <<FromInt(0), FromInt(-180), FromInt(0), FromInt(0)>>
        /\ outcome[p] = Returned(FMul(Pi, FromInt(6371)))

\* C7: haversine(lat1, lon1, lat2, lon2) ends as haversine(lat2, lon2,
\* lat1, lon1) does, with the same value.
C7_HaversineSymmetric ==
    \A p \in Procs :
        (call[p].fn = "haversine" /\ Done(p)) =>
            LET x == call[p].args
            IN  outcome[p] = RunAlone("haversine", <<x[3], x[4], x[1], x[2]>>)

\* haversine returned a distance that is not zero between two points that
\* differ in latitude and in longitude.
C7_Witness ==
    \E p \in Procs :
        /\ call[p].fn = "haversine"
        /\ call[p].args[1] # call[p].args[3]
        /\ call[p].args[2] # call[p].args[4]
        /\ Returns(p)
        /\ Positive(outcome[p].value)

\* C8: haversine(lat, lon, lat, lon) returns 0.
C8_HaversineOfAPointIsZero ==
    \A p \in Procs :
        (/\ call[p].fn = "haversine"
         /\ call[p].args[1] = call[p].args[3]
         /\ call[p].args[2] = call[p].args[4]
         /\ Done(p)) => outcome[p] = Returned(Zero)

\* haversine(45, 90, 45, 90) returned 0.
C8_Witness ==
    \E p \in Procs :
        /\ call[p] = [fn |-> "haversine",
                      args |-> <<FromInt(45), FromInt(90), FromInt(45), FromInt(90)>>]
        /\ outcome[p] = Returned(Zero)

\* The time that invocation p returned.
TimeReturned(p) ==
    IF call[p].fn = "travel_time_s" THEN outcome[p].value ELSE outcome[p].value[2]

\* C9 as claimed: every time that travel_time_s or distance_and_time
\* returns is >= 0.
C9_TimeNeverNegative ==
    \A p \in Procs :
        (call[p].fn \in {"travel_time_s", "distance_and_time"} /\ Returns(p)) =>
            NonNegative(TimeReturned(p))

\* C9 as amended: the time that distance_and_time returns is >= 0, and so
\* is the time that travel_time_s returns for dist_km >= 0.
C9_TimeNonNegativeForDistanceNonNegative ==
    \A p \in Procs :
        /\ (call[p].fn = "distance_and_time" /\ Returns(p)) =>
               NonNegative(TimeReturned(p))
        /\ (call[p].fn = "travel_time_s" /\ NonNegative(call[p].args[1]) /\ Returns(p)) =>
               NonNegative(TimeReturned(p))

\* distance_and_time returned a time above 0.
C9_Witness ==
    \E p \in Procs :
        /\ call[p].fn = "distance_and_time"
        /\ Returns(p)
        /\ Positive(TimeReturned(p))

\* C10: under any interleaving of the steps of the invocations in flight,
\* an invocation ends with the value or the error it ends with alone.
C10_OutcomeAsIfAlone ==
    \A p \in Procs :
        Done(p) => outcome[p] = RunAlone(call[p].fn, call[p].args)

\* An invocation returned while another, of another call, was between its
\* first line and its last.
C10_Witness ==
    \E p, q \in Procs :
        /\ p # q
        /\ call[p] # call[q]
        /\ Returns(p)
        /\ outcome[p] = RunAlone(call[p].fn, call[p].args)
        /\ stack[q] # << >>
        /\ Top(stack[q]).pc \notin {15, 36, 59}

=============================================================================
